---- MODULE Spec2Model ----
(***************************************************************************)
(* Strategic Insights GPT backend: the PubMed and ClinicalTrials.gov       *)
(* source adapters, their bulk strategic search, and the Pinecone vector   *)
(* service.  Python dicts are records whose DOMAIN is the set of keys      *)
(* present; Python lists are sequences; blocking network calls are the     *)
(* points at which a handler waits for the provider's response.            *)
(***************************************************************************)
EXTENDS Integers, Sequences, FiniteSets, TLC

\* ------------------------------------------------------------------ bounds
\* Longest record batch a provider response carries in the model.
MaxBatch == 2
\* Longest id list an id-search response carries in the model.
MaxIds == 1
\* Most Documents one bulk run accumulates in the model.
MaxTotal == 2
\* Most chunks the splitter cuts one document into in the model.
MaxChunks == 2
\* Most VectorService calls in one modelled session.
MaxOps == 2
\* Most add_documents calls over long documents in one modelled session.
MaxLongOps == 2

\* --------------------------------------------------------- Python values
\* Python None / an empty XML element's .text / a JSON null in a string slot.
None == "<None>"
\* A JSON null in a slot that normally holds an object.
JNull == [jnull |-> TRUE]
\* {} (the empty dict): the function with empty domain.
EmptyDict == <<>>

Min(a, b) == IF a <= b THEN a ELSE b

\* dict.get(k, dflt)
Get(d, k, dflt) == IF k \in DOMAIN d THEN d[k] ELSE dflt
\* truthiness of a str-or-None value
TruthyStr(s) == s # None /\ s # ""
\* str(x) as an f-string renders it
Str(s) == IF s = None THEN "None" ELSE s
\* seq[:n] for n >= 0
Prefix(s, n) == SubSeq(s, 1, Min(n, Len(s)))

RECURSIVE JoinWith(_, _)
\* sep.join(parts)
JoinWith(sep, parts) ==
    IF parts = <<>> THEN ""
    ELSE IF Len(parts) = 1 THEN parts[1]
    ELSE parts[1] \o sep \o JoinWith(sep, Tail(parts))

RECURSIVE SelectNotNone(_)
\* the elements of a list that are not None, in order
SelectNotNone(s) ==
    IF s = <<>> THEN <<>>
    ELSE IF "isnone" \in DOMAIN Head(s) THEN SelectNotNone(Tail(s))
    ELSE <<Head(s)>> \o SelectNotNone(Tail(s))

\* What a parser returns when it caught an exception: Python None, in a slot
\* that normally holds a Document.
NoDoc == [isnone |-> TRUE]
IsDoc(d) == ~("isnone" \in DOMAIN d)

\* ---------------------------------------------------------------- panels
pubmed_strategic_queries ==
    << "real-world evidence AND registry",
       "cost-effectiveness AND real-world evidence",
       "patient-reported outcomes AND real-world evidence",
       "comparative effectiveness research AND real-world data",
       "real-world evidence AND regulatory approval",
       "observational study AND real-world evidence",
       "real-world evidence AND clinical trials",
       "health economics AND real-world evidence",
       "real-world evidence AND drug safety",
       "real-world evidence AND treatment effectiveness",
       "real-world evidence AND healthcare utilization",
       "real-world evidence AND patient outcomes" >>

ct_strategic_queries ==
    << "real-world evidence",
       "observational study",
       "registry study",
       "post-marketing surveillance",
       "comparative effectiveness",
       "patient-reported outcomes",
       "health economics",
       "real-world data",
       "pragmatic trial",
       "effectiveness study",
       "safety surveillance",
       "outcomes research" >>

strategic_queries(s) ==
    IF s = "pubmed" THEN pubmed_strategic_queries ELSE ct_strategic_queries

\* ------------------------------------------------- PubMed: _parse_article
\* An XML element is a record of the child elements present; a child's value
\* is its .text (None for an empty element).
ExtractPublicationDate(article_elem) ==
    IF "PubDate" \in DOMAIN article_elem
    THEN LET pub_date == article_elem.PubDate
             date_parts ==
                 (IF "Year" \in DOMAIN pub_date THEN <<pub_date.Year>> ELSE <<>>)
                 \o (IF "Month" \in DOMAIN pub_date THEN <<pub_date.Month>> ELSE <<>>)
                 \o (IF "Day" \in DOMAIN pub_date THEN <<pub_date.Day>> ELSE <<>>)
         IN  IF \E i \in 1..Len(date_parts) : date_parts[i] = None
             THEN "Unknown date"     \* '-'.join raises TypeError, caught
             ELSE IF date_parts # <<>> THEN JoinWith("-", date_parts)
             ELSE "Unknown date"
    ELSE "Unknown date"

RECURSIVE AuthorNames(_)
AuthorNames(authors) ==
    IF authors = <<>> THEN <<>>
    ELSE LET author == Head(authors)
         IN  (IF "LastName" \in DOMAIN author /\ "ForeName" \in DOMAIN author
              THEN << Str(author.ForeName) \o " " \o Str(author.LastName) >>
              ELSE <<>>)
             \o AuthorNames(Tail(authors))

\* Mutant: a field whose element is missing is left out of the Document instead
\* of being given its default.
ParseArticleSkipsMissing(article_elem) ==
    LET pmid == Get(article_elem, "PMID", None)
        present == { "pmid", "authors", "publication_date", "doi", "source", "url" }
                   \cup (IF "ArticleTitle" \in DOMAIN article_elem THEN {"title"} ELSE {})
                   \cup (IF "AbstractText" \in DOMAIN article_elem THEN {"abstract"} ELSE {})
                   \cup (IF "JournalTitle" \in DOMAIN article_elem THEN {"journal"} ELSE {})
    IN  [ k \in present |->
            CASE k = "pmid" -> pmid
              [] k = "title" -> article_elem.ArticleTitle
              [] k = "abstract" -> article_elem.AbstractText
              [] k = "authors" -> AuthorNames(Get(article_elem, "Author", <<>>))
              [] k = "journal" -> article_elem.JournalTitle
              [] k = "publication_date" -> ExtractPublicationDate(article_elem)
              [] k = "doi" -> Get(article_elem, "doi", None)
              [] k = "source" -> "pubmed"
              [] OTHER -> IF TruthyStr(pmid)
                          THEN "https://pubmed.ncbi.nlm.nih.gov/" \o pmid \o "/"
                          ELSE None ]

ParseArticle(article_elem) ==
    LET pmid == Get(article_elem, "PMID", None)
    IN  [ pmid |-> pmid,
          title |-> Get(article_elem, "ArticleTitle", "No title available"),
          abstract |-> Get(article_elem, "AbstractText", "No abstract available"),
          authors |-> AuthorNames(Get(article_elem, "Author", <<>>)),
          journal |-> Get(article_elem, "JournalTitle", "Unknown journal"),
          publication_date |-> ExtractPublicationDate(article_elem),
          doi |-> Get(article_elem, "doi", None),
          source |-> "pubmed",
          url |-> IF TruthyStr(pmid)
                  THEN "https://pubmed.ncbi.nlm.nih.gov/" \o pmid \o "/"
                  ELSE None ]

\* --------------------------------------- ClinicalTrials.gov: _parse_study
\* A JSON object is a record of the keys present; a key whose value is JSON
\* null holds JNull.  x.get(...) on a null raises AttributeError.
IsNull(x) == "jnull" \in DOMAIN x

Modules ==
    { "identificationModule", "statusModule", "descriptionModule",
      "conditionsModule", "designModule", "armsInterventionsModule",
      "sponsorCollaboratorsModule", "contactsLocationsModule" }

\* The accesses of _parse_study that raise inside its try block.
ParseStudyRaises(study) ==
    \/ IsNull(study)
    \/ LET protocol_section == Get(study, "protocolSection", EmptyDict)
       IN  \/ IsNull(protocol_section)
           \/ \E m \in Modules : IsNull(Get(protocol_section, m, EmptyDict))
           \/ LET arms == Get(protocol_section, "armsInterventionsModule", EmptyDict)
                  ivs == Get(arms, "interventions", <<>>)
              IN  \E i \in 1..Len(ivs) : IsNull(ivs[i])
           \/ IsNull(Get(Get(protocol_section, "sponsorCollaboratorsModule", EmptyDict),
                         "leadSponsor", EmptyDict))
           \/ LET locs == Get(Get(protocol_section, "contactsLocationsModule", EmptyDict),
                              "locations", <<>>)
              IN  \E i \in 1..Len(locs) :
                      \/ IsNull(locs[i])
                      \/ IsNull(Get(locs[i], "facility", EmptyDict))
           \/ LET status_module == Get(protocol_section, "statusModule", EmptyDict)
              IN  \/ IsNull(Get(status_module, "startDateStruct", EmptyDict))
                  \/ IsNull(Get(status_module, "completionDateStruct", EmptyDict))

ParseStudy(study) ==
    IF ParseStudyRaises(study) THEN NoDoc
    ELSE
    LET protocol_section == Get(study, "protocolSection", EmptyDict)
        identification_module == Get(protocol_section, "identificationModule", EmptyDict)
        status_module == Get(protocol_section, "statusModule", EmptyDict)
        description_module == Get(protocol_section, "descriptionModule", EmptyDict)
        conditions_module == Get(protocol_section, "conditionsModule", EmptyDict)
        design_module == Get(protocol_section, "designModule", EmptyDict)
        arms_interventions_module ==
            Get(protocol_section, "armsInterventionsModule", EmptyDict)
        sponsors_collaborators_module ==
            Get(protocol_section, "sponsorCollaboratorsModule", EmptyDict)
        contacts_locations_module ==
            Get(protocol_section, "contactsLocationsModule", EmptyDict)
        nct_id == Get(identification_module, "nctId", "")
        phases == Get(design_module, "phases", <<>>)
        ivs == Get(arms_interventions_module, "interventions", <<>>)
        lead_sponsor == Get(sponsors_collaborators_module, "leadSponsor", EmptyDict)
        locs == Get(contacts_locations_module, "locations", <<>>)
    IN  [ nct_id |-> nct_id,
          title |-> Get(identification_module, "briefTitle", "No title available"),
          brief_summary |-> Get(description_module, "briefSummary", "No summary available"),
          detailed_description |-> Get(description_module, "detailedDescription", ""),
          overall_status |-> Get(status_module, "overallStatus", "Unknown"),
          phase |-> IF phases # <<>> THEN phases[1] ELSE "Unknown",
          conditions |-> Get(conditions_module, "conditions", <<>>),
          interventions |->
              [ i \in 1..Len(ivs) |->
                  [ type |-> Get(ivs[i], "type", "Unknown"),
                    name |-> Get(ivs[i], "name", "Unknown") ] ],
          sponsor |-> Get(lead_sponsor, "name", "Unknown sponsor"),
          locations |->
              [ i \in 1..Len(locs) |->
                  LET facility == Get(locs[i], "facility", EmptyDict)
                  IN  [ facility |-> Get(facility, "name", "Unknown facility"),
                        city |-> Get(facility, "city", "Unknown city"),
                        country |-> Get(facility, "country", "Unknown country") ] ],
          start_date |-> Get(Get(status_module, "startDateStruct", EmptyDict),
                             "date", "Unknown"),
          completion_date |-> Get(Get(status_module, "completionDateStruct", EmptyDict),
                                  "date", "Unknown"),
          source |-> "clinicaltrials",
          url |-> IF TruthyStr(nct_id)
                  THEN "https://clinicaltrials.gov/study/" \o nct_id
                  ELSE None ]

\* ------------------------------------------------------ provider responses
\* Detail records the literature provider can return: well-formed, a second
\* record of the same PMID, sparse, and without a PMID element.
Article111 ==
    [ PMID |-> "111", ArticleTitle |-> "Aspirin registry", JournalTitle |-> "BMJ",
      Author |-> << [LastName |-> "Doe", ForeName |-> "Jane"] >>,
      PubDate |-> [Year |-> "2021", Month |-> "May"], doi |-> "10.1/x" ]
Article111Erratum == [ PMID |-> "111", ArticleTitle |-> "Aspirin registry (erratum)" ]
Article222 == [ PMID |-> "222", AbstractText |-> "Cohort." ]
ArticleNoId == [ ArticleTitle |-> "No identifier" ]
RawArticles == { Article111, Article111Erratum, Article222, ArticleNoId }

\* Study records the registry provider can return: well-formed, a second record
\* of the same NCT id, sparse, without an identifier, and with a null
\* protocolSection.
Study001 ==
    [ protocolSection |->
        [ identificationModule |-> [nctId |-> "NCT001", briefTitle |-> "Trial A"],
          statusModule |-> [overallStatus |-> "RECRUITING",
                            startDateStruct |-> [date |-> "2020-01"]],
          designModule |-> [phases |-> <<"PHASE2">>],
          conditionsModule |-> [conditions |-> <<"Diabetes">>] ] ]
Study001Revised ==
    [ protocolSection |->
        [ identificationModule |-> [nctId |-> "NCT001", briefTitle |-> "Trial A v2"] ] ]
Study002 == [ protocolSection |-> [ identificationModule |-> [nctId |-> "NCT002"] ] ]
StudyNoId == [ protocolSection |-> [ descriptionModule |-> [briefSummary |-> "No id"] ] ]
StudyNullProtocol == [ protocolSection |-> JNull ]
RawStudies == { Study001, Study001Revised, Study002, StudyNoId, StudyNullProtocol }

\* All sequences over S of length 0..n.
SeqsUpTo(S, n) == UNION { [1..k -> S] : k \in 0..n }

\* ---------------------------------------------------------- VectorService
batch_size == 100

Digit(d) ==
    CASE d = 0 -> "0" [] d = 1 -> "1" [] d = 2 -> "2" [] d = 3 -> "3"
      [] d = 4 -> "4" [] d = 5 -> "5" [] d = 6 -> "6" [] d = 7 -> "7"
      [] d = 8 -> "8" [] OTHER -> "9"

RECURSIVE ToStr(_)
\* str(n) for n >= 0
ToStr(n) == IF n < 10 THEN Digit(n) ELSE ToStr(n \div 10) \o Digit(n % 10)

\* truthiness of doc.get(k) for a str-or-None value / for a list value
HasStr(doc, k) == k \in DOMAIN doc /\ TruthyStr(doc[k])
HasList(doc, k) == k \in DOMAIN doc /\ doc[k] # <<>>

InterventionTexts(ivs) ==
    [ i \in 1..Len(ivs) |-> Get(ivs[i], "type", "") \o ": " \o Get(ivs[i], "name", "") ]

\* _extract_content
ExtractContent(doc) ==
    LET content_parts ==
            (IF HasStr(doc, "title") THEN << "Title: " \o doc.title >> ELSE <<>>)
         \o (IF HasStr(doc, "abstract") THEN << "Abstract: " \o doc.abstract >>
             ELSE IF HasStr(doc, "brief_summary")
                  THEN << "Summary: " \o doc.brief_summary >> ELSE <<>>)
         \o (IF HasStr(doc, "detailed_description")
             THEN << "Description: " \o doc.detailed_description >> ELSE <<>>)
         \o (IF HasList(doc, "conditions")
             THEN << "Conditions: " \o JoinWith(", ", doc.conditions) >> ELSE <<>>)
         \o (IF HasList(doc, "interventions")
             THEN << "Interventions: "
                     \o JoinWith(", ", InterventionTexts(doc.interventions)) >>
             ELSE <<>>)
         \o (IF HasStr(doc, "journal") THEN << "Journal: " \o doc.journal >> ELSE <<>>)
         \o (IF HasList(doc, "authors")
             THEN << "Authors: " \o JoinWith(", ", Prefix(doc.authors, 5)) >>
             ELSE <<>>)
    IN  JoinWith("\n\n", content_parts)

\* text_splitter.split_text(content), an external splitter: n pieces of the
\* content (none of an empty content).
SplitText(content, n) ==
    IF content = "" THEN <<>>
    ELSE [ i \in 1..n |-> [piece |-> i, of |-> content] ]

\* f"{doc.get('id', 'unknown')}_{i}"
VectorId(doc, i) == Str(Get(doc, "id", "unknown")) \o "_" \o ToStr(i)

\* The metadata of chunk i (from 0) of doc.
Metadata(doc, chunks, i) ==
    LET base == [ content |-> chunks[i + 1],
                  source |-> Get(doc, "source", "unknown"),
                  title |-> Get(doc, "title", ""),
                  chunk_index |-> i,
                  total_chunks |-> Len(chunks) ]
        extra == { k \in {"pmid", "nct_id", "journal"} : HasStr(doc, k) }
                 \cup (IF HasList(doc, "authors") THEN {"authors"} ELSE {})
    IN  [ k \in DOMAIN base \cup extra |->
            IF k \in DOMAIN base THEN base[k]
            ELSE IF k = "authors" THEN JoinWith(", ", Prefix(doc.authors, 3))
            ELSE doc[k] ]

\* The entries add_documents appends to vectors_to_upsert for one document.
DocVectors(doc, n) ==
    LET chunks == SplitText(ExtractContent(doc), n)
    IN  [ i \in 1..Len(chunks) |->
            [ id |-> VectorId(doc, i - 1),
              values |-> [embedding_of |-> chunks[i]],
              metadata |-> Metadata(doc, chunks, i - 1) ] ]

RECURSIVE VectorsToUpsert(_, _)
\* vectors_to_upsert for `documents`, the splitter cutting document d into
\* nchunks[d] pieces.
VectorsToUpsert(documents, nchunks) ==
    IF documents = <<>> THEN <<>>
    ELSE DocVectors(Head(documents), Head(nchunks))
         \o VectorsToUpsert(Tail(documents), Tail(nchunks))

\* index.upsert(vectors=batch) on store st: later entries of a key replace
\* earlier ones.
Upsert(st, vectors) ==
    LET ids == { vectors[i].id : i \in 1..Len(vectors) }
        last(k) == CHOOSE i \in 1..Len(vectors) :
                       /\ vectors[i].id = k
                       /\ \A j \in (i + 1)..Len(vectors) : vectors[j].id # k
    IN  [ k \in DOMAIN st \cup ids |->
            IF k \in ids
            THEN [values |-> vectors[last(k)].values,
                  metadata |-> vectors[last(k)].metadata]
            ELSE st[k] ]

\* Mutant: each batch starts one record early, at the last record of the
\* batch before it.
BatchOfOverlapping(vectors, b) ==
    SubSeq(vectors, IF b = 1 THEN 1 ELSE (b - 1) * batch_size,
           Min(b * batch_size, Len(vectors)))

\* vectors_to_upsert[i:i + batch_size] for the b-th pass of the loop (b from 1)
BatchOf(vectors, b) ==
    SubSeq(vectors, (b - 1) * batch_size + 1, Min(b * batch_size, Len(vectors)))
NumBatches(vectors) == (Len(vectors) + batch_size - 1) \div batch_size

RECURSIVE UpsertBatches(_, _, _, _)
\* the store after passes b..last of the upsert loop
UpsertBatches(st, vectors, b, last) ==
    IF b > last THEN st
    ELSE UpsertBatches(Upsert(st, BatchOf(vectors, b)), vectors, b + 1, last)

EmbedRequest(text) == [api |-> "embed_query", text |-> text]
UpsertRequest(vectors) ==
    [api |-> "upsert", ids |-> [i \in 1..Len(vectors) |-> vectors[i].id],
     vectors |-> vectors]

\* How a VectorService method ends: what it returns, whether it raises, the
\* store it leaves, the requests it issued, the kind of request that failed.
VOut(ret, st, reqs, failed) ==
    [ret |-> ret, raised |-> FALSE, store |-> st, calls |-> reqs, failed |-> failed]

\* __init__: self.index, from whether PINECONE_API_KEY is set and whether
\* connecting to the index succeeds.
VectorServiceIndex(has_key, connects) ==
    IF has_key THEN (IF connects THEN "index" ELSE None) ELSE None

\* Mutant: a failed upsert request is swallowed inside the batch loop and the
\* method still reports success.
AddDocumentsSwallowsUpsertFailure(idx, st, documents, env) ==
    IF idx = None THEN VOut(FALSE, st, <<>>, "none")
    ELSE
    LET vectors == VectorsToUpsert(documents, env.nchunks)
        embeds == [ i \in 1..Len(vectors) |->
                      EmbedRequest(vectors[i].metadata.content) ]
        nb == NumBatches(vectors)
        upserts(n) == [ b \in 1..n |-> UpsertRequest(BatchOf(vectors, b)) ]
    IN  IF env.embed_fail \in 1..Len(vectors)
        THEN VOut(FALSE, st, SubSeq(embeds, 1, env.embed_fail), "embed_query")
        ELSE IF env.upsert_fail \in 1..nb
        THEN VOut(TRUE, UpsertBatches(st, vectors, 1, env.upsert_fail - 1),
                  embeds \o upserts(nb), "upsert")
        ELSE VOut(TRUE, UpsertBatches(st, vectors, 1, nb),
                  embeds \o upserts(nb), "none")

\* Mutant: each document's records are upserted as soon as its chunks are
\* embedded, before the next document's chunks are embedded.
AddDocumentsUpsertPerDocument(idx, st, documents, env) ==
    IF idx = None THEN VOut(FALSE, st, <<>>, "none")
    ELSE
    LET vectors == VectorsToUpsert(documents, env.nchunks)
        first == IF documents = <<>> THEN <<>>
                 ELSE DocVectors(documents[1], env.nchunks[1])
        rest == SubSeq(vectors, Len(first) + 1, Len(vectors))
        embeds(vs) == [ i \in 1..Len(vs) |-> EmbedRequest(vs[i].metadata.content) ]
    IN  IF env.embed_fail \in 1..Len(first)
        THEN VOut(FALSE, st, SubSeq(embeds(first), 1, env.embed_fail), "embed_query")
        ELSE IF env.embed_fail \in (Len(first) + 1)..Len(vectors)
        THEN VOut(FALSE, IF first = <<>> THEN st ELSE Upsert(st, first),
                  embeds(first)
                  \o (IF first = <<>> THEN <<>> ELSE << UpsertRequest(first) >>)
                  \o SubSeq(embeds(rest), 1, env.embed_fail - Len(first)),
                  "embed_query")
        ELSE IF env.upsert_fail # 0
        THEN VOut(FALSE, st, embeds(vectors) \o << UpsertRequest(vectors) >>, "upsert")
        ELSE VOut(TRUE, IF vectors = <<>> THEN st ELSE Upsert(st, vectors),
                  embeds(vectors)
                  \o (IF vectors = <<>> THEN <<>> ELSE << UpsertRequest(vectors) >>),
                  "none")

\* Mutant: when an upsert request fails, the batches upserted before it are
\* taken out of the store again.
AddDocumentsRollsBack(idx, st, documents, env) ==
    IF idx = None THEN VOut(FALSE, st, <<>>, "none")
    ELSE
    LET vectors == VectorsToUpsert(documents, env.nchunks)
        embeds == [ i \in 1..Len(vectors) |->
                      EmbedRequest(vectors[i].metadata.content) ]
        nb == NumBatches(vectors)
        upserts(n) == [ b \in 1..n |-> UpsertRequest(BatchOf(vectors, b)) ]
    IN  IF env.embed_fail \in 1..Len(vectors)
        THEN VOut(FALSE, st, SubSeq(embeds, 1, env.embed_fail), "embed_query")
        ELSE IF env.upsert_fail \in 1..nb
        THEN VOut(FALSE, st, embeds \o upserts(env.upsert_fail), "upsert")
        ELSE VOut(TRUE, UpsertBatches(st, vectors, 1, nb),
                  embeds \o upserts(nb), "none")

\* add_documents(documents) on index idx and store st; env tells how the
\* splitter chunks each document (nchunks), which embedding request fails
\* (embed_fail, 0 for none) and which upsert request fails (upsert_fail).
AddDocuments(idx, st, documents, env) ==
    IF idx = None THEN VOut(FALSE, st, <<>>, "none")
    ELSE
    LET vectors == VectorsToUpsert(documents, env.nchunks)
        embeds == [ i \in 1..Len(vectors) |->
                      EmbedRequest(vectors[i].metadata.content) ]
        nb == NumBatches(vectors)
        upserts(n) == [ b \in 1..n |-> UpsertRequest(BatchOf(vectors, b)) ]
    IN  IF env.embed_fail \in 1..Len(vectors)
        THEN VOut(FALSE, st, SubSeq(embeds, 1, env.embed_fail), "embed_query")
        ELSE IF env.upsert_fail \in 1..nb
        THEN VOut(FALSE, UpsertBatches(st, vectors, 1, env.upsert_fail - 1),
                  embeds \o upserts(env.upsert_fail), "upsert")
        ELSE VOut(TRUE, UpsertBatches(st, vectors, 1, nb),
                  embeds \o upserts(nb), "none")

\* Mutant: the `if not self.index` check is missing; without an index the
\* query is embedded before self.index.query raises and is caught.
SimilaritySearchNoIndexCheck(idx, st, q, k, filter_dict, env) ==
    IF ~env.embed_ok
    THEN VOut(<<>>, st, << EmbedRequest(q) >>, "embed_query")
    ELSE IF idx = None THEN VOut(<<>>, st, << EmbedRequest(q) >>, "none")
    ELSE IF ~env.query_ok
    THEN VOut(<<>>, st, << EmbedRequest(q), [api |-> "query", top_k |-> k] >>, "query")
    ELSE VOut(<<>>, st, << EmbedRequest(q), [api |-> "query", top_k |-> k] >>, "none")

\* similarity_search(query, k, filter_dict); env tells whether the embedding
\* and the store query succeed and what the store matches.
SimilaritySearch(idx, st, q, k, filter_dict, env) ==
    IF idx = None THEN VOut(<<>>, st, <<>>, "none")
    ELSE IF ~env.embed_ok
    THEN VOut(<<>>, st, << EmbedRequest(q) >>, "embed_query")
    ELSE LET search_params ==
                 IF filter_dict # EmptyDict
                 THEN [api |-> "query", top_k |-> k, include_metadata |-> TRUE,
                       filter |-> filter_dict]
                 ELSE [api |-> "query", top_k |-> k, include_metadata |-> TRUE]
             reqs == << EmbedRequest(q), search_params >>
         IN  IF ~env.query_ok THEN VOut(<<>>, st, reqs, "query")
             ELSE VOut([ i \in 1..Len(env.matches) |->
                          LET match == env.matches[i]
                          IN  [ id |-> Get(match, "id", None),
                                score |-> Get(match, "score", None),
                                metadata |-> Get(match, "metadata", EmptyDict),
                                content |-> Get(Get(match, "metadata", EmptyDict),
                                                "content", "") ] ],
                       st, reqs, "none")

\* get_index_stats(); env tells whether describe_index_stats succeeds.
GetIndexStats(idx, st, env) ==
    IF idx = None
    THEN VOut([error |-> "Pinecone index not available"], st, <<>>, "none")
    ELSE IF ~env.stats_ok
    THEN VOut([error |-> "describe_index_stats failed"], st,
              << [api |-> "describe_index_stats"] >>, "describe_index_stats")
    ELSE VOut([ total_vectors |-> Get(env.stats, "total_vector_count", 0),
                dimension |-> Get(env.stats, "dimension", 0),
                index_fullness |-> Get(env.stats, "index_fullness", 0),
                namespaces |-> Get(env.stats, "namespaces", EmptyDict) ],
              st, << [api |-> "describe_index_stats"] >>, "none")

\* ------------------------------------------------------------------ state
VARIABLES
    pc,                     \* where the running handler is blocked, or "idle"
    op,                     \* the public operation running, or the last one run
    svc,                    \* the adapter in use: "pubmed" or "clinicaltrials"
    query, max_results,     \* arguments of the running adapter search
    pmids,                  \* search_articles: ids the id-search returned
    calls,                  \* requests the running adapter search has issued
    batch,                  \* raw records a direct adapter search received
    result,                 \* `results`: what the last adapter search returned
    raised,                 \* whether the last public operation raised
    topic, max_results_per_query,   \* arguments of bulk_strategic_search
    qi,                     \* index into strategic_queries of the current entry
    all_results, unique_results,
    nsearch,                \* adapter searches started by the running bulk call
    nsleep,                 \* time.sleep(0.5) pauses completed by it
    anyfail,                \* whether one of its searches met a failed request
    delivered,              \* [q, id]: entry q's adapter search returned id
    failstep,               \* the request of the last adapter search that
                            \* failed: "esearch", "efetch", "studies" or "none"
    self_strategic_queries, \* each service's strategic_queries attribute
    searches,               \* the adapter searches the running bulk call has
                            \* started, in order: query, max_results, and the
                            \* pause that elapsed since the previous one ended
    answered,               \* requests of the running adapter search that got
                            \* their response (or failed)
    index,                  \* VectorService.index: "index" or None
    store,                  \* the vector store: key -> record
    init_status,            \* how __init__ went: "none" (not run yet), "ok",
                            \* "no_key" or "connect_failed"
    vop,                    \* the last VectorService method called
    vargs,                  \* its arguments (and how the splitter chunked them)
    vcalls,                 \* embedding / store requests it issued, in order
    vfail,                  \* the kind of request of it that failed, or "none"
    vret,                   \* what it returned
    vraised,                \* whether it raised
    nops,                   \* VectorService calls made so far
    normalizer,             \* the parser last applied on its own: "_parse_study",
                            \* "_parse_article" or "none"
    raw_record,             \* the raw provider record it was given
    document                \* what it returned

searchvars == << pc, op, svc, query, max_results, pmids, calls, batch, result,
                 raised, topic, max_results_per_query, qi, all_results,
                 unique_results, nsearch, nsleep, anyfail, delivered,
                 failstep, self_strategic_queries, searches, answered >>
vecvars == << index, store, init_status, vop, vargs, vcalls, vfail, vret,
              vraised, nops >>
normvars == << normalizer, raw_record, document >>
vars == << searchvars, vecvars, normvars >>

\* Program constants.
PageSizeCeiling == 1000
\* time.sleep(0.5), in tenths of a second
PolitenessPause == 5

\* Arguments the callers pass in the model.
Queries == { "aspirin AND real-world evidence" }
Topics == { "diabetes" }
MaxResultsArgs == { 0, 1, 2, PageSizeCeiling, PageSizeCeiling + 1 }
PerQueryCaps == { 2 }

\* The provider's ranked ids for a term; an id-search returns a prefix of it.
IdRanking == << "111", "222", "333", "444" >>

Statuses == { "ok", "transport_error", "http_error" }

\* Responses to esearch.fcgi with retmax = n: a failure, or at most n ids.
EsearchResponses(n) ==
    { [status |-> st, ids |-> <<>>] : st \in Statuses \ {"ok"} }
    \cup { [status |-> "ok", ids |-> Prefix(IdRanking, k)] :
             k \in 0..Min(n, MaxIds) }

\* Responses to efetch.fcgi: a failure, or a batch of at most n PubmedArticle
\* elements drawn from raws.
EfetchResponses(raws, n) ==
    { [status |-> st, articles |-> <<>>] : st \in Statuses \ {"ok"} }
    \cup { [status |-> "ok", articles |-> b] : b \in SeqsUpTo(raws, n) }

\* Responses of the registry endpoint: a failure, or a page of at most n
\* studies drawn from raws.
StudiesResponses(raws, n) ==
    { [status |-> st, studies |-> <<>>] : st \in Statuses \ {"ok"} }
    \cup { [status |-> "ok", studies |-> b] : b \in SeqsUpTo(raws, n) }

\* -------------------------------------------------------- adapter searches
\* How a call ends: a returned list, or an exception reaching the caller.
Returns(docs) == [raised |-> FALSE, docs |-> docs]
Raises == [raised |-> TRUE, docs |-> <<>>]

EsearchRequest(q, n) == [url |-> "esearch.fcgi", term |-> q, retmax |-> n]
EfetchRequest(ids) == [url |-> "efetch.fcgi", id |-> JoinWith(",", ids)]
\* Mutant: the page size is sent as asked, without the ceiling.
StudiesRequestUncapped(q, n) ==
    [url |-> "studies", term |-> q, pageSize |-> n]
StudiesRequest(q, n) ==
    [url |-> "studies", term |-> q, pageSize |-> Min(n, PageSizeCeiling)]

\* Mutant: the `if not pmids` early return is missing.
SearchArticlesNoEmptyCheck(resp) ==
    IF resp.status # "ok" THEN [next |-> "return", out |-> Returns(<<>>)]
    ELSE [next |-> "efetch", out |-> Returns(<<>>)]

\* search_articles from the id-search response on: [next |-> "efetch"] when the
\* detail fetch is to be issued, else how the call ends.
SearchArticlesAfterEsearch(resp) ==
    IF resp.status # "ok" THEN [next |-> "return", out |-> Returns(<<>>)]
    ELSE IF resp.ids = <<>> THEN [next |-> "return", out |-> Returns(<<>>)]
    ELSE [next |-> "efetch", out |-> Returns(<<>>)]

\* Mutant: the detail fetch has no try/except of its own and search_articles
\* none around it, so a failed request raises to the caller.
FetchArticleDetailsUncaught(resp) ==
    IF resp.status # "ok" THEN Raises
    ELSE Returns(SelectNotNone(
             [i \in 1..Len(resp.articles) |-> ParseArticle(resp.articles[i])]))

\* _fetch_article_details from the detail-fetch response on.
FetchArticleDetails(resp) ==
    IF resp.status # "ok" THEN Returns(<<>>)
    ELSE Returns(SelectNotNone(
             [i \in 1..Len(resp.articles) |-> ParseArticle(resp.articles[i])]))

\* Mutant: a study that cannot be parsed aborts the whole page.
SearchStudiesAbortOnBadRecord(resp, n) ==
    IF resp.status # "ok" THEN Returns(<<>>)
    ELSE LET studies == Prefix(resp.studies, n)
         IN  IF \E i \in 1..Len(studies) : ~IsDoc(ParseStudy(studies[i]))
             THEN Returns(<<>>)
             ELSE Returns([i \in 1..Len(studies) |-> ParseStudy(studies[i])])

\* search_studies from the response on.
SearchStudiesAfterResponse(resp, n) ==
    IF resp.status # "ok" THEN Returns(<<>>)
    ELSE LET studies == Prefix(resp.studies, n)
         IN  Returns(SelectNotNone(
                 [i \in 1..Len(studies) |-> ParseStudy(studies[i])]))

\* ------------------------------------------------- bulk_strategic_search
IdKey(s) == IF s = "pubmed" THEN "pmid" ELSE "nct_id"

\* Mutant: the literature adapter's sub-query is not put in parentheses.
FullQueryUngrouped(s, t, q) == t \o " AND " \o q

FullQuery(s, t, q) ==
    IF s = "pubmed" THEN t \o " AND (" \o q \o ")" ELSE t \o " AND " \o q

\* Mutant: the combined query string is attached instead of the panel entry.
AnnotateFullQuery(doc, q, t) ==
    [ k \in DOMAIN doc \cup {"search_query", "topic"} |->
        IF k = "search_query" THEN t \o " AND " \o q
        ELSE IF k = "topic" THEN t ELSE doc[k] ]

\* result['search_query'] = query; result['topic'] = topic
Annotate(doc, q, t) ==
    [ k \in DOMAIN doc \cup {"search_query", "topic"} |->
        IF k = "search_query" THEN q ELSE IF k = "topic" THEN t ELSE doc[k] ]

RECURSIVE DedupFrom(_, _, _)
DedupFrom(rest, seen, key) ==
    IF rest = <<>> THEN <<>>
    ELSE LET id == Get(Head(rest), key, None)
         IN  IF TruthyStr(id) /\ id \notin seen
             THEN <<Head(rest)>> \o DedupFrom(Tail(rest), seen \cup {id}, key)
             ELSE DedupFrom(Tail(rest), seen, key)

\* Mutant: the seen set is never added to.
RemoveDuplicatesSeenNotUpdated(results, key) ==
    SelectSeq(results, LAMBDA d : TruthyStr(Get(d, key, None)))

\* Mutant: Documents without an identifier are kept, after the others.
RemoveDuplicatesKeepsUnidentified(results, key) ==
    DedupFrom(results, {}, key)
    \o SelectSeq(results, LAMBDA d : ~TruthyStr(Get(d, key, None)))

\* "Remove duplicates based on PMID / NCT ID"
RemoveDuplicates(results, key) == DedupFrom(results, {}, key)

\* Mutant: the loop is left as soon as a sub-query returns nothing.
LoopBodyBreakOnEmpty(out, q, t) ==
    IF out.raised \/ out.docs = <<>>
    THEN [add |-> <<>>, then |-> "break"]
    ELSE [add |-> [i \in 1..Len(out.docs) |-> Annotate(out.docs[i], q, t)],
          then |-> "sleep"]

\* Mutant: a sub-query that returned nothing goes straight on to the next one,
\* without the pause.
LoopBodyNoPauseOnEmpty(out, q, t) ==
    IF out.raised \/ out.docs = <<>>
    THEN [add |-> <<>>, then |-> "continue"]
    ELSE [add |-> [i \in 1..Len(out.docs) |-> Annotate(out.docs[i], q, t)],
          then |-> "sleep"]

\* One pass of the loop body after the adapter search ended with `out`:
\* the Documents to extend all_results with, and how the loop goes on:
\* "sleep" (end of the try body), "continue" (the except branch) or "break".
LoopBody(out, q, t) ==
    IF out.raised
    THEN [add |-> <<>>, then |-> "continue"]
    ELSE [add |-> [i \in 1..Len(out.docs) |-> Annotate(out.docs[i], q, t)],
          then |-> "sleep"]

\* ------------------------------------------------------------------- Init
InitSearch ==
    /\ pc = "idle" /\ op = "none" /\ svc = "none"
    /\ query = "" /\ max_results = 0 /\ pmids = <<>> /\ calls = <<>>
    /\ batch = <<>> /\ result = <<>> /\ raised = FALSE
    /\ topic = "" /\ max_results_per_query = 0 /\ qi = 0
    /\ all_results = <<>> /\ unique_results = <<>>
    /\ nsearch = 0 /\ nsleep = 0 /\ anyfail = FALSE /\ delivered = {}
    /\ failstep = "none"
    /\ self_strategic_queries =
          [ s \in {"pubmed", "clinicaltrials"} |-> strategic_queries(s) ]
    /\ searches = <<>> /\ answered = 0

\* --------------------------------------------------- search-side actions
bulkvars == << topic, max_results_per_query, qi, all_results, unique_results,
               nsearch, nsleep, anyfail, delivered, searches >>

\* An entry of `searches`.
SearchCall(q, n, waited) == [query |-> q, max_results |-> n, waited |-> waited]

\* The adapter search of service s begins: its first request goes out.
StartSearch(s, q, n) ==
    /\ svc' = s /\ query' = q /\ max_results' = n
    /\ pmids' = <<>> /\ batch' = <<>> /\ failstep' = "none"
    /\ answered' = 0
    /\ IF s = "pubmed"
       THEN calls' = << EsearchRequest(q, n) >> /\ pc' = "esearch"
       ELSE calls' = << StudiesRequest(q, n) >> /\ pc' = "ctget"

ResetBulk ==
    /\ topic' = "" /\ max_results_per_query' = 0 /\ qi' = 0
    /\ all_results' = <<>> /\ unique_results' = <<>>
    /\ nsearch' = 0 /\ nsleep' = 0 /\ anyfail' = FALSE /\ delivered' = {}
    /\ searches' = <<>>

\* A caller invokes PubMedService.search_articles(query, max_results).
CallSearchArticles ==
    /\ pc = "idle"
    /\ \E q \in Queries, n \in MaxResultsArgs : StartSearch("pubmed", q, n)
    /\ op' = "search_articles" /\ result' = <<>> /\ raised' = FALSE
    /\ ResetBulk
    /\ UNCHANGED << self_strategic_queries, vecvars, normvars >>

\* A caller invokes ClinicalTrialsService.search_studies(query, max_results).
CallSearchStudies ==
    /\ pc = "idle"
    /\ \E q \in Queries, n \in MaxResultsArgs : StartSearch("clinicaltrials", q, n)
    /\ op' = "search_studies" /\ result' = <<>> /\ raised' = FALSE
    /\ ResetBulk
    /\ UNCHANGED << self_strategic_queries, vecvars, normvars >>

\* A caller invokes bulk_strategic_search(topic, max_results_per_query) of
\* either service: the loop reaches the first entry's adapter search.
CallBulkStrategicSearch ==
    /\ pc = "idle"
    /\ \E s \in {"pubmed", "clinicaltrials"}, t \in Topics, c \in PerQueryCaps :
          /\ topic' = t /\ max_results_per_query' = c
          /\ StartSearch(s, FullQuery(s, t, self_strategic_queries[s][1]), c)
          /\ searches' =
                << SearchCall(FullQuery(s, t, self_strategic_queries[s][1]), c, 0) >>
    /\ op' = "bulk_strategic_search" /\ result' = <<>> /\ raised' = FALSE
    /\ qi' = 1 /\ all_results' = <<>> /\ unique_results' = <<>>
    /\ nsearch' = 1 /\ nsleep' = 0 /\ anyfail' = FALSE /\ delivered' = {}
    /\ UNCHANGED << self_strategic_queries, vecvars, normvars >>

\* The loop moves past entry qi: the next entry's adapter search begins, or,
\* after the last entry (or a break), duplicates are removed from `ar` and
\* bulk_strategic_search returns.
LeaveLoop(ar) ==
    /\ unique_results' = RemoveDuplicates(ar, IdKey(svc))
    /\ pc' = "idle"
    /\ answered' = Len(calls)
    /\ UNCHANGED << svc, query, max_results, pmids, calls, batch, qi, nsearch,
                    failstep, searches >>

\* `waited` is the pause that elapsed since the adapter search of entry qi
\* ended.
NextIteration(ar, waited) ==
    IF qi < Len(self_strategic_queries[svc])
    THEN LET full_query ==
                 FullQuery(svc, topic, self_strategic_queries[svc][qi + 1])
         IN  /\ qi' = qi + 1
             /\ StartSearch(svc, full_query, max_results_per_query)
             /\ searches' =
                   Append(searches,
                          SearchCall(full_query, max_results_per_query, waited))
             /\ nsearch' = nsearch + 1
             /\ UNCHANGED unique_results
    ELSE LeaveLoop(ar)

DocIds(docs) ==
    { Get(docs[i], IdKey(svc), None) : i \in 1..Len(docs) } \ { None, "" }

\* The running adapter search ends with `out`; `fstep` names the request of it
\* that failed ("none" if none did); `raw` is the provider's batch of records.
SearchEnds(out, fstep, raw) ==
    IF op # "bulk_strategic_search"
    THEN /\ pc' = "idle" /\ result' = out.docs /\ raised' = out.raised
         /\ batch' = raw /\ failstep' = fstep
         /\ answered' = Len(calls)
         /\ UNCHANGED << svc, query, max_results, pmids, calls >>
         /\ UNCHANGED bulkvars
    ELSE LET body == LoopBody(out, self_strategic_queries[svc][qi], topic)
             ar == all_results \o body.add
         IN  /\ Len(ar) <= MaxTotal
             /\ all_results' = ar
             /\ anyfail' = (anyfail \/ fstep # "none")
             /\ delivered' = delivered \cup { [q |-> qi, id |-> id] : id \in DocIds(out.docs) }
             /\ raised' = FALSE
             /\ UNCHANGED << topic, max_results_per_query >>
             /\ CASE body.then = "sleep" ->
                       /\ result' = body.add /\ pc' = "sleep" /\ failstep' = fstep
                       /\ answered' = Len(calls)
                       /\ UNCHANGED << svc, query, max_results, pmids, calls, batch,
                                       qi, nsearch, nsleep, unique_results,
                                       searches >>
                  [] body.then = "continue" ->
                       /\ UNCHANGED << result, nsleep >>
                       /\ NextIteration(ar, 0)
                  [] OTHER ->
                       /\ UNCHANGED << result, nsleep >>
                       /\ LeaveLoop(ar)

\* The longest batch the model lets a response carry: during a bulk run no
\* more than all_results has room for.
BatchRoom ==
    IF op = "bulk_strategic_search"
    THEN Min(MaxBatch, MaxTotal - Len(all_results))
    ELSE MaxBatch

\* The response to esearch.fcgi arrives (or the request fails).
EsearchResponse ==
    /\ pc = "esearch"
    /\ \E resp \in EsearchResponses(max_results) :
          LET a == SearchArticlesAfterEsearch(resp)
          IN  IF a.next = "efetch"
              THEN /\ pmids' = resp.ids
                   /\ calls' = Append(calls, EfetchRequest(resp.ids))
                   /\ pc' = "efetch"
                   /\ answered' = answered + 1
                   /\ UNCHANGED << op, svc, query, max_results, batch, result,
                                   raised, failstep, bulkvars >>
              ELSE /\ SearchEnds(a.out,
                                  IF resp.status # "ok" THEN "esearch" ELSE "none",
                                  <<>>)
                   /\ UNCHANGED op
    /\ UNCHANGED << self_strategic_queries, vecvars, normvars >>

\* The response to efetch.fcgi arrives (or the request fails).
EfetchResponse ==
    /\ pc = "efetch"
    /\ \E resp \in EfetchResponses(RawArticles, BatchRoom) :
          SearchEnds(FetchArticleDetails(resp),
                     IF resp.status # "ok" THEN "efetch" ELSE "none", resp.articles)
    /\ UNCHANGED op
    /\ UNCHANGED << self_strategic_queries, vecvars, normvars >>

\* The response of the registry endpoint arrives (or the request fails).
StudiesResponse ==
    /\ pc = "ctget"
    /\ \E resp \in StudiesResponses(RawStudies, BatchRoom) :
          SearchEnds(SearchStudiesAfterResponse(resp, max_results),
                     IF resp.status # "ok" THEN "studies" ELSE "none", resp.studies)
    /\ UNCHANGED op
    /\ UNCHANGED << self_strategic_queries, vecvars, normvars >>

\* time.sleep(0.5) at the end of the try body returns.
BulkSleep ==
    /\ pc = "sleep"
    /\ nsleep' = nsleep + 1
    /\ NextIteration(all_results, PolitenessPause)
    /\ UNCHANGED << op, result, raised, topic, max_results_per_query,
                    all_results, anyfail, delivered >>
    /\ UNCHANGED << self_strategic_queries, vecvars, normvars >>

Next ==
    \/ CallSearchArticles
    \/ CallSearchStudies
    \/ CallBulkStrategicSearch
    \/ EsearchResponse
    \/ EfetchResponse
    \/ StudiesResponse
    \/ BulkSleep

\* VectorService not constructed yet; the store is empty.
InitVector ==
    /\ index = None /\ store = EmptyDict /\ init_status = "none"
    /\ vop = "none" /\ vargs = EmptyDict /\ vcalls = <<>> /\ vfail = "none"
    /\ vret = None /\ vraised = FALSE /\ nops = 0

\* No record has been normalized on its own yet.
InitNormalize ==
    normalizer = "none" /\ raw_record = EmptyDict /\ document = NoDoc

Init == InitSearch /\ InitVector /\ InitNormalize

Spec == Init /\ [][Next]_vars

\* ------------------------------------------------ vector-service actions
\* Document lists handed to add_documents: adapter results and one
\* caller-built document that carries an 'id' key.
CallerDoc == [ id |-> "doc-1", title |-> "Caller note", source |-> "manual" ]
DocLists ==
    { <<>>,
      << ParseArticle(Article111) >>,
      << ParseArticle(Article111), ParseArticle(Article222) >>,
      << ParseStudy(Study001), CallerDoc >> }

\* What can go wrong in one add_documents call over `vectors`: nothing, the
\* j-th embedding request, or the b-th upsert request.
AddFailures(vectors) ==
    { [embed_fail |-> 0, upsert_fail |-> 0] }
    \cup { [embed_fail |-> j, upsert_fail |-> 0] : j \in 1..Len(vectors) }
    \cup { [embed_fail |-> 0, upsert_fail |-> b] : b \in 1..NumBatches(vectors) }

VecReturn(name, args, o) ==
    /\ vop' = name /\ vargs' = args
    /\ store' = o.store /\ vcalls' = o.calls /\ vfail' = o.failed
    /\ vret' = [op |-> name, value |-> o.ret] /\ vraised' = o.raised
    /\ nops' = nops + 1
    /\ UNCHANGED << index, init_status >>

\* VectorService() is constructed.
VectorServiceInit ==
    /\ init_status = "none"
    /\ \E has_key \in BOOLEAN, connects \in BOOLEAN :
          /\ index' = VectorServiceIndex(has_key, connects)
          /\ init_status' = IF ~has_key THEN "no_key"
                            ELSE IF ~connects THEN "connect_failed" ELSE "ok"
    /\ vop' = "__init__"
    /\ UNCHANGED << store, vargs, vcalls, vfail, vret, vraised, nops >>
    /\ UNCHANGED << searchvars, normvars >>

\* A caller invokes add_documents(documents).
CallAddDocuments ==
    /\ init_status # "none" /\ nops < MaxOps
    /\ \E documents \in DocLists :
       \E nch \in [1..Len(documents) -> 0..MaxChunks] :
       \E f \in AddFailures(VectorsToUpsert(documents, nch)) :
          VecReturn("add_documents",
                    [documents |-> documents, nchunks |-> nch],
                    AddDocuments(index, store, documents,
                                 [nchunks |-> nch, embed_fail |-> f.embed_fail,
                                  upsert_fail |-> f.upsert_fail]))
    /\ UNCHANGED << searchvars, normvars >>

\* How the providers can answer one similarity_search: the embedding fails,
\* the store query fails, or the store returns no match or one match, with or
\* without its metadata.
SearchEnvs ==
    { [embed_ok |-> FALSE, query_ok |-> TRUE, matches |-> <<>>],
      [embed_ok |-> TRUE, query_ok |-> FALSE, matches |-> <<>>],
      [embed_ok |-> TRUE, query_ok |-> TRUE, matches |-> <<>>] }
    \cup { [embed_ok |-> TRUE, query_ok |-> TRUE,
            matches |-> << [id |-> k, score |-> "0.9",
                            metadata |-> store[k].metadata] >>] : k \in DOMAIN store }
    \cup { [embed_ok |-> TRUE, query_ok |-> TRUE,
            matches |-> << [id |-> k, score |-> "0.9"] >>] : k \in DOMAIN store }

\* A caller invokes similarity_search(query, k, filter_dict).
CallSimilaritySearch ==
    /\ init_status # "none" /\ nops < MaxOps
    /\ \E q \in Queries, k \in {5}, f \in {EmptyDict, [source |-> "pubmed"]} :
       \E env \in SearchEnvs :
          VecReturn("similarity_search", [query |-> q, k |-> k, filter_dict |-> f],
                    SimilaritySearch(index, store, q, k, f, env))
    /\ UNCHANGED << searchvars, normvars >>

\* A caller invokes get_index_stats().
CallGetIndexStats ==
    /\ init_status # "none" /\ nops < MaxOps
    /\ \E sok \in BOOLEAN :
          VecReturn("get_index_stats", EmptyDict,
                    GetIndexStats(index, store,
                                  [stats_ok |-> sok,
                                   stats |-> [total_vector_count |->
                                                  Cardinality(DOMAIN store)]]))
    /\ UNCHANGED << searchvars, normvars >>

NextVec ==
    \/ VectorServiceInit
    \/ CallAddDocuments
    \/ CallSimilaritySearch
    \/ CallGetIndexStats

SpecVec == Init /\ [][NextVec]_vars

\* ------------------------------------- add_documents over long documents
\* Document lists whose chunks fill one batch exactly, spill into a second or a
\* third, and cross a batch boundary at and inside a document.
LongChunkings ==
    { [documents |-> << CallerDoc >>, nchunks |-> << n >>] :
        n \in { batch_size, batch_size + 1, 2 * batch_size + 1 } }
    \cup { [documents |-> << CallerDoc, ParseArticle(Article222) >>, nchunks |-> c] :
             c \in { << batch_size, 1 >>, << batch_size - 1, 2 >> } }

\* What can go wrong in one add_documents call over many vectors: nothing, the
\* first or the last embedding request, or the b-th upsert request.
LongAddFailures(vectors) ==
    { [embed_fail |-> 0, upsert_fail |-> 0] }
    \cup { [embed_fail |-> j, upsert_fail |-> 0] : j \in {1, Len(vectors)} }
    \cup { [embed_fail |-> 0, upsert_fail |-> b] : b \in 1..NumBatches(vectors) }

\* A caller invokes add_documents(documents) with long documents.
CallAddDocumentsLong ==
    /\ init_status # "none" /\ nops < MaxLongOps
    /\ \E a \in LongChunkings :
       \E f \in LongAddFailures(VectorsToUpsert(a.documents, a.nchunks)) :
          VecReturn("add_documents", a,
                    AddDocuments(index, store, a.documents,
                                 [nchunks |-> a.nchunks, embed_fail |-> f.embed_fail,
                                  upsert_fail |-> f.upsert_fail]))
    /\ UNCHANGED << searchvars, normvars >>

NextBatch ==
    \/ VectorServiceInit
    \/ CallAddDocumentsLong

SpecBatch == Init /\ [][NextBatch]_vars

\* ------------------------------------------------- the normalizers alone
\* How much of a module / child element a raw record carries.
Levels == { "absent", "sparse", "full" }

\* The registry's modules with every nested field, and with some missing.
StudyModule(m, level) ==
    CASE m = "identificationModule" ->
           IF level = "full" THEN [nctId |-> "NCT009", briefTitle |-> "Trial Z"]
           ELSE [briefTitle |-> "Trial Z"]
      [] m = "statusModule" ->
           IF level = "full"
           THEN [overallStatus |-> "COMPLETED",
                 startDateStruct |-> [date |-> "2019-03"],
                 completionDateStruct |-> [date |-> "2022-11"]]
           ELSE [startDateStruct |-> EmptyDict,
                 completionDateStruct |-> [date |-> "2022-11"]]
      [] m = "descriptionModule" ->
           IF level = "full"
           THEN [briefSummary |-> "A summary.", detailedDescription |-> "Details."]
           ELSE [detailedDescription |-> "Details."]
      [] m = "conditionsModule" ->
           IF level = "full" THEN [conditions |-> <<"Asthma", "COPD">>]
           ELSE EmptyDict
      [] m = "designModule" ->
           IF level = "full" THEN [phases |-> <<"PHASE3", "PHASE4">>]
           ELSE [phases |-> <<>>]
      [] m = "armsInterventionsModule" ->
           IF level = "full"
           THEN [interventions |-> << [type |-> "DRUG", name |-> "Salbutamol"] >>]
           ELSE [interventions |-> << [name |-> "Placebo"], EmptyDict >>]
      [] m = "sponsorCollaboratorsModule" ->
           IF level = "full" THEN [leadSponsor |-> [name |-> "ACME"]]
           ELSE [leadSponsor |-> EmptyDict]
      [] OTHER ->
           IF level = "full"
           THEN [locations |-> << [facility |-> [name |-> "Clinic", city |-> "Oslo",
                                                 country |-> "Norway"]] >>]
           ELSE [locations |-> << [facility |-> [city |-> "Oslo"]], EmptyDict >>]

\* The study whose module m is carried at level lv[m].
StudyAt(lv) ==
    [ protocolSection |->
        [ m \in { x \in Modules : lv[x] # "absent" } |-> StudyModule(m, lv[m]) ] ]

\* Registry records with any subset of modules and nested fields missing, and
\* the record without a protocolSection.
SparseStudies == { StudyAt(lv) : lv \in [Modules -> Levels] } \cup { EmptyDict }

ArticleChildren ==
    { "PMID", "ArticleTitle", "AbstractText", "Author", "JournalTitle",
      "PubDate", "doi" }

\* A child element of a PubmedArticle, complete or with parts of it missing
\* (an element without text, an author without a ForeName, a date without a
\* Year).
ArticleChild(c, level) ==
    CASE c = "Author" ->
           IF level = "full"
           THEN << [LastName |-> "Roe", ForeName |-> "Ann"],
                   [LastName |-> "Poe", ForeName |-> "Ed"] >>
           ELSE << [LastName |-> "Roe"], [LastName |-> "Poe", ForeName |-> "Ed"] >>
      [] c = "PubDate" ->
           IF level = "full" THEN [Year |-> "2020", Month |-> "Jan", Day |-> "7"]
           ELSE [Month |-> "Jan"]
      [] c = "PMID" -> IF level = "full" THEN "999" ELSE None
      [] c = "doi" -> IF level = "full" THEN "10.9/z" ELSE None
      [] OTHER -> IF level = "full" THEN "Text of " \o c ELSE None

ArticleAt(lv) ==
    [ c \in { x \in ArticleChildren : lv[x] # "absent" } |-> ArticleChild(c, lv[c]) ]

\* Literature records with any subset of child elements missing.
SparseArticles == { ArticleAt(lv) : lv \in [ArticleChildren -> Levels] }

\* _parse_study(study) is applied to a registry record.
NormalizeStudy ==
    /\ normalizer = "none"
    /\ \E study \in SparseStudies :
          /\ raw_record' = study
          /\ document' = ParseStudy(study)
    /\ normalizer' = "_parse_study"
    /\ UNCHANGED << searchvars, vecvars >>

\* _parse_article(article_elem) is applied to a literature record.
NormalizeArticle ==
    /\ normalizer = "none"
    /\ \E article_elem \in SparseArticles :
          /\ raw_record' = article_elem
          /\ document' = ParseArticle(article_elem)
    /\ normalizer' = "_parse_article"
    /\ UNCHANGED << searchvars, vecvars >>

NextNorm ==
    \/ NormalizeStudy
    \/ NormalizeArticle

SpecNorm == Init /\ [][NextNorm]_vars

\* =============================================== claims on the search side
BulkDone == op = "bulk_strategic_search" /\ pc = "idle"
DirectDone == op \in {"search_articles", "search_studies"} /\ pc = "idle"
Panel == strategic_queries(svc)
IdOf(doc) == Get(doc, IdKey(svc), None)
\* Identifiers present in the accumulated results.
AccumulatedIds == { IdOf(all_results[i]) : i \in 1..Len(all_results) } \ { None, "" }
FirstIndex(id) ==
    CHOOSE i \in 1..Len(all_results) :
        /\ IdOf(all_results[i]) = id
        /\ \A j \in 1..(i - 1) : IdOf(all_results[j]) # id

\* C1: when bulk_strategic_search has returned, every identifier present in the
\* accumulated results occurs in the output exactly once, the Document kept
\* for it is the first one accumulated with that identifier, and the output
\* lists the kept Documents in the order of their first appearance.
C1_DedupFirstWins ==
    BulkDone =>
        /\ \A id \in AccumulatedIds :
              Cardinality({ i \in 1..Len(unique_results) :
                              IdOf(unique_results[i]) = id }) = 1
        /\ \A i \in 1..Len(unique_results) :
              /\ IdOf(unique_results[i]) \in AccumulatedIds
              /\ unique_results[i] = all_results[FirstIndex(IdOf(unique_results[i]))]
        /\ \A i, j \in 1..Len(unique_results) :
              i < j => FirstIndex(IdOf(unique_results[i]))
                         < FirstIndex(IdOf(unique_results[j]))

\* Two sub-queries returned the same identifier, and one Document came out.
C1_Witness ==
    /\ BulkDone
    /\ Len(all_results) = 2
    /\ IdOf(all_results[1]) = IdOf(all_results[2])
    /\ all_results[1].search_query # all_results[2].search_query
    /\ Len(unique_results) = 1

\* C2: no operation raises; a bulk run starts the adapter search of every panel
\* entry in turn whatever failed before, and when it has returned all 12 were
\* started and every identifier a sub-query's search returned is in the output.
C2_PanelSurvivesFailures ==
    /\ raised = FALSE
    /\ op = "bulk_strategic_search" =>
          /\ nsearch = qi
          /\ pc = "idle" =>
                /\ nsearch = Len(Panel)
                /\ \A d \in delivered :
                      \E i \in 1..Len(unique_results) : IdOf(unique_results[i]) = d.id

\* A run in which a request failed, and whose last sub-query, after that
\* failure, still returned Documents that are in the output.
C2_Witness ==
    /\ BulkDone
    /\ anyfail
    /\ failstep = "none" /\ result # <<>>
    /\ \E d \in delivered : d.q = Len(Panel)
    /\ unique_results # <<>>

\* C3: an adapter search in which a request failed returns the empty list and
\* raises nothing; when the failed request is the id-search, no detail fetch
\* was issued.
C3_FailSoft ==
    failstep # "none" =>
        /\ result = <<>>
        /\ raised = FALSE
        /\ failstep = "esearch" =>
              \A i \in 1..Len(calls) : calls[i].url # "efetch.fcgi"

\* A direct search_articles whose detail fetch failed.
C3_Witness ==
    /\ DirectDone /\ op = "search_articles"
    /\ failstep = "efetch"
    /\ Len(calls) = 2

\* C4: a detail-fetch request is only ever the second request of a
\* search_articles call, after an id-search that returned at least one id, and
\* asks for those ids; a search with max_results = 0 issues none and returns
\* the empty list.
C4_FetchOnlyAfterIds ==
    /\ \A i \in 1..Len(calls) :
          calls[i].url = "efetch.fcgi" =>
              /\ i = 2 /\ calls[1].url = "esearch.fcgi"
              /\ pmids # <<>>
              /\ calls[i].id = JoinWith(",", pmids)
    /\ (svc = "pubmed" /\ pc \in {"idle", "sleep"} /\ pmids = <<>>) =>
          /\ Len(calls) = 1
          /\ result = <<>>
    /\ (svc = "pubmed" /\ max_results = 0) =>
          \A i \in 1..Len(calls) : calls[i].url # "efetch.fcgi"

\* search_articles(query, 0) answered without failure: one request, no result.
C4_Witness ==
    /\ DirectDone /\ op = "search_articles"
    /\ max_results = 0 /\ failstep = "none"
    /\ Len(calls) = 1 /\ result = <<>>

\* C5: search_studies issues exactly one request, with pageSize
\* min(max_results, 1000); what it returns has at most max_results Documents,
\* each the normalization of one of the first max_results studies of the
\* response, in the response's order.
C5_PageSizeAndTruncation ==
    svc = "clinicaltrials" =>
        /\ Len(calls) = 1
        /\ calls[1].pageSize =
              (IF max_results <= PageSizeCeiling THEN max_results ELSE PageSizeCeiling)
        /\ calls[1].pageSize <= PageSizeCeiling
        /\ (DirectDone /\ max_results >= 0) =>
              /\ Len(result) <= max_results
              /\ \E f \in [1..Len(result) -> 1..Min(max_results, Len(batch))] :
                    /\ \A k \in 1..Len(result) : result[k] = ParseStudy(batch[f[k]])
                    /\ \A k, l \in 1..Len(result) : k < l => f[k] < f[l]

\* search_studies(query, 1001): pageSize 1000 went out and Documents came back.
C5_Witness ==
    /\ DirectDone /\ op = "search_studies"
    /\ max_results = PageSizeCeiling + 1
    /\ calls[1].pageSize = PageSizeCeiling
    /\ result # <<>>

\* The records of a batch that an adapter normalizes: the whole detail batch,
\* or the first max_results studies.
Normalized(raw) ==
    IF svc = "pubmed" THEN ParseArticle(raw) ELSE ParseStudy(raw)
Considered ==
    IF svc = "pubmed" THEN batch ELSE Prefix(batch, max_results)
GoodUpTo(i) ==
    Cardinality({ j \in 1..i : IsDoc(Normalized(Considered[j])) })

\* C6: after a direct adapter search whose requests succeeded, the result holds
\* exactly the records of the batch whose normalization succeeded, each
\* normalized, in the provider's order; a failing record removes only itself.
C6_RecordsIndependent ==
    (DirectDone /\ failstep = "none") =>
        /\ Len(result) = GoodUpTo(Len(Considered))
        /\ \A i \in 1..Len(Considered) :
              IsDoc(Normalized(Considered[i])) =>
                  result[GoodUpTo(i)] = Normalized(Considered[i])

\* A registry page whose first study cannot be parsed and whose second can.
C6_Witness ==
    /\ DirectDone /\ op = "search_studies" /\ failstep = "none"
    /\ Len(Considered) = 2
    /\ ~IsDoc(ParseStudy(batch[1]))
    /\ IsDoc(ParseStudy(batch[2]))
    /\ result = << ParseStudy(batch[2]) >>

FirstEntry(id) ==
    CHOOSE q \in 1..Len(Panel) :
        /\ [q |-> q, id |-> id] \in delivered
        /\ \A r \in 1..(q - 1) : [q |-> r, id |-> id] \notin delivered

\* C10: every Document of a bulk run's output carries the caller's topic and,
\* as search_query, the first panel entry whose adapter search returned its
\* identifier; the Documents a direct adapter search returns carry neither key.
C10_Provenance ==
    /\ BulkDone =>
          \A i \in 1..Len(unique_results) :
              /\ "topic" \in DOMAIN unique_results[i]
              /\ "search_query" \in DOMAIN unique_results[i]
              /\ unique_results[i].topic = topic
              /\ \E q \in 1..Len(Panel) : [q |-> q, id |-> IdOf(unique_results[i])] \in delivered
              /\ unique_results[i].search_query = Panel[FirstEntry(IdOf(unique_results[i]))]
    /\ DirectDone =>
          \A i \in 1..Len(result) :
              /\ "search_query" \notin DOMAIN result[i]
              /\ "topic" \notin DOMAIN result[i]

\* Two panel entries returned the same identifier; the Document that came out
\* names the earlier one.
C10_Witness ==
    /\ BulkDone
    /\ \E d, e \in delivered : d.id = e.id /\ d.q < e.q
    /\ Len(unique_results) = 1
    /\ unique_results[1].search_query = Panel[FirstEntry(IdOf(unique_results[1]))]

\* The panels as the services' constructors build them.
BuiltPanels == [ s \in {"pubmed", "clinicaltrials"} |-> strategic_queries(s) ]

\* C12: during and after a bulk run the adapter searches started so far are
\* those of the first qi panel entries, one each and in panel order; each was
\* called with the caller's max_results_per_query and with the query string
\* "topic AND (entry)" for PubMed, "topic AND entry" for ClinicalTrials.gov,
\* which is the term of the request it sent; when the run has returned there
\* were 12; no operation changes either service's panel.
C12_OneSearchPerEntry ==
    /\ self_strategic_queries = BuiltPanels
    /\ op = "bulk_strategic_search" =>
          /\ Len(searches) = qi
          /\ \A i \in 1..Len(searches) :
                /\ searches[i].max_results = max_results_per_query
                /\ searches[i].query =
                      (IF svc = "pubmed"
                       THEN topic \o " AND (" \o pubmed_strategic_queries[i] \o ")"
                       ELSE topic \o " AND " \o ct_strategic_queries[i])
          /\ calls[1].term = searches[qi].query
          /\ svc = "pubmed" => calls[1].retmax = max_results_per_query
          /\ svc = "clinicaltrials" =>
                calls[1].pageSize = Min(max_results_per_query, PageSizeCeiling)
          /\ pc = "idle" => Len(searches) = 12

\* A PubMed bulk run has returned; its twelfth search asked for the topic and
\* the last panel entry in parentheses.
C12_Witness ==
    /\ BulkDone /\ svc = "pubmed"
    /\ Len(searches) = 12
    /\ searches[12].query = "diabetes AND (real-world evidence AND patient outcomes)"
    /\ searches[1].query = "diabetes AND (real-world evidence AND registry)"

\* Requests of the running adapter search that are awaiting their response.
InFlight == Len(calls) - answered
Requesting == pc \in {"esearch", "efetch", "ctget"}

\* C13: at most one provider request is in flight at any time, and none while
\* the bulk loop pauses or no operation runs; every adapter search of a bulk
\* run but the first started after a pause of at least 0.5 s had elapsed since
\* the previous one ended, whatever that one returned; while the search of
\* entry qi runs, qi - 1 pauses have been completed.
C13_SequentialThrottled ==
    /\ InFlight \in {0, 1}
    /\ InFlight = 1 <=> Requesting
    /\ op = "bulk_strategic_search" =>
          /\ \A i \in 2..Len(searches) : searches[i].waited >= PolitenessPause
          /\ Requesting => nsleep = qi - 1
          /\ pc = "sleep" => nsleep = qi - 1
          /\ pc = "idle" => nsleep = qi

\* The first sub-query's search failed, and the second one's request went out
\* after the pause.
C13_Witness ==
    /\ op = "bulk_strategic_search" /\ Requesting
    /\ qi = 2 /\ anyfail
    /\ InFlight = 1
    /\ searches[2].waited = PolitenessPause
    /\ nsleep = 1

\* Accumulated Documents whose identifier is missing or empty.
Unidentified == { i \in 1..Len(all_results) : IdOf(all_results[i]) \in {None, ""} }

\* C17: when bulk_strategic_search has returned, every Document of the output
\* has a non-empty identifier and the url built from it, no accumulated
\* Document whose identifier is missing (pmid None) or empty (nct_id '') is in
\* the output, and the output has no more Documents than were accumulated with
\* an identifier.
C17_UnidentifiedDropped ==
    BulkDone =>
        /\ \A i \in 1..Len(unique_results) :
              /\ IdOf(unique_results[i]) \notin {None, ""}
              /\ unique_results[i].url # None
              /\ unique_results[i].url =
                    (IF svc = "pubmed"
                     THEN "https://pubmed.ncbi.nlm.nih.gov/"
                              \o IdOf(unique_results[i]) \o "/"
                     ELSE "https://clinicaltrials.gov/study/" \o IdOf(unique_results[i]))
        /\ \A j \in Unidentified :
              /\ all_results[j].url = None
              /\ \A i \in 1..Len(unique_results) : unique_results[i] # all_results[j]
        /\ Len(unique_results) <= Len(all_results) - Cardinality(Unidentified)

\* The sub-queries returned two different Documents, one of them without an
\* identifier; only the other one came out.
C17_Witness ==
    /\ BulkDone
    /\ Len(all_results) = 2
    /\ Cardinality(Unidentified) = 1
    /\ all_results[1] # all_results[2]
    /\ Len(unique_results) = 1
    /\ IdOf(unique_results[1]) \notin {None, ""}

\* ============================================== claims on the normalizers
\* The value a raw record holds at a path of keys: {v}, or {} when any key on
\* the path is missing.
RECURSIVE At(_, _)
At(d, path) ==
    IF path = <<>> THEN {d}
    ELSE IF Head(path) \in DOMAIN d THEN At(d[Head(path)], Tail(path))
    ELSE {}
OrDefault(S, dflt) == IF S = {} THEN dflt ELSE CHOOSE v \in S : TRUE
StudyField(path, dflt) == OrDefault(At(raw_record, <<"protocolSection">> \o path), dflt)
ArticleField(c, dflt) == OrDefault(At(raw_record, <<c>>), dflt)

StudyFields ==
    { "nct_id", "title", "brief_summary", "detailed_description", "overall_status",
      "phase", "conditions", "interventions", "sponsor", "locations", "start_date",
      "completion_date", "source", "url" }
ArticleFields ==
    { "pmid", "title", "abstract", "authors", "journal", "publication_date", "doi",
      "source", "url" }

\* C11: whatever modules, child elements and nested fields a raw record lacks,
\* _parse_study / _parse_article meets no exception and returns a Document
\* that has every documented field, each holding the record's value where the
\* record has one and the declared default where it has none.
C11_NormalizeTotal ==
    /\ normalizer = "_parse_study" =>
          /\ ~ParseStudyRaises(raw_record)
          /\ IsDoc(document)
          /\ DOMAIN document = StudyFields
          /\ document.nct_id = StudyField(<<"identificationModule", "nctId">>, "")
          /\ document.title =
                StudyField(<<"identificationModule", "briefTitle">>, "No title available")
          /\ document.brief_summary =
                StudyField(<<"descriptionModule", "briefSummary">>, "No summary available")
          /\ document.detailed_description =
                StudyField(<<"descriptionModule", "detailedDescription">>, "")
          /\ document.overall_status =
                StudyField(<<"statusModule", "overallStatus">>, "Unknown")
          /\ LET phases == StudyField(<<"designModule", "phases">>, <<>>)
             IN  document.phase = IF phases = <<>> THEN "Unknown" ELSE phases[1]
          /\ document.conditions = StudyField(<<"conditionsModule", "conditions">>, <<>>)
          /\ LET ivs == StudyField(<<"armsInterventionsModule", "interventions">>, <<>>)
             IN  /\ Len(document.interventions) = Len(ivs)
                 /\ \A i \in 1..Len(ivs) :
                       /\ DOMAIN document.interventions[i] = {"type", "name"}
                       /\ \A k \in {"type", "name"} :
                             document.interventions[i][k]
                                = OrDefault(At(ivs[i], <<k>>), "Unknown")
          /\ document.sponsor =
                StudyField(<<"sponsorCollaboratorsModule", "leadSponsor", "name">>,
                           "Unknown sponsor")
          /\ LET locs == StudyField(<<"contactsLocationsModule", "locations">>, <<>>)
             IN  /\ Len(document.locations) = Len(locs)
                 /\ \A i \in 1..Len(locs) :
                       /\ DOMAIN document.locations[i] = {"facility", "city", "country"}
                       /\ document.locations[i].facility
                             = OrDefault(At(locs[i], <<"facility", "name">>), "Unknown facility")
                       /\ document.locations[i].city
                             = OrDefault(At(locs[i], <<"facility", "city">>), "Unknown city")
                       /\ document.locations[i].country
                             = OrDefault(At(locs[i], <<"facility", "country">>), "Unknown country")
          /\ document.start_date =
                StudyField(<<"statusModule", "startDateStruct", "date">>, "Unknown")
          /\ document.completion_date =
                StudyField(<<"statusModule", "completionDateStruct", "date">>, "Unknown")
          /\ document.source = "clinicaltrials"
          /\ document.url = IF document.nct_id = "" THEN None
                            ELSE "https://clinicaltrials.gov/study/" \o document.nct_id
    /\ normalizer = "_parse_article" =>
          /\ IsDoc(document)
          /\ DOMAIN document = ArticleFields
          /\ document.pmid = ArticleField("PMID", None)
          /\ document.title = ArticleField("ArticleTitle", "No title available")
          /\ document.abstract = ArticleField("AbstractText", "No abstract available")
          /\ document.journal = ArticleField("JournalTitle", "Unknown journal")
          /\ document.doi = ArticleField("doi", None)
          /\ LET authors == ArticleField("Author", <<>>)
                 named == SelectSeq(authors,
                              LAMBDA a : {"LastName", "ForeName"} \subseteq DOMAIN a)
             IN  document.authors =
                     [ i \in 1..Len(named) |->
                         named[i].ForeName \o " " \o named[i].LastName ]
          /\ LET pub_date == ArticleField("PubDate", EmptyDict)
             IN  IF {"Year", "Month", "Day"} \subseteq DOMAIN pub_date
                 THEN document.publication_date =
                          pub_date.Year \o "-" \o pub_date.Month \o "-" \o pub_date.Day
                 ELSE IF DOMAIN pub_date = {"Month"}
                 THEN document.publication_date = pub_date.Month
                 ELSE document.publication_date = "Unknown date"
          /\ document.source = "pubmed"
          /\ document.url = IF document.pmid \in {None, ""} THEN None
                            ELSE "https://pubmed.ncbi.nlm.nih.gov/" \o document.pmid \o "/"

\* A registry record that has only a description module, and that without a
\* summary, came out with the defaults in every other field.
C11_Witness ==
    /\ normalizer = "_parse_study"
    /\ "protocolSection" \in DOMAIN raw_record
    /\ DOMAIN raw_record.protocolSection = {"descriptionModule"}
    /\ "briefSummary" \notin DOMAIN raw_record.protocolSection.descriptionModule
    /\ document.brief_summary = "No summary available"
    /\ document.detailed_description = "Details."
    /\ document.nct_id = "" /\ document.url = None
    /\ document.sponsor = "Unknown sponsor" /\ document.locations = <<>>

\* =============================================== claims on the vector side
AddDone == vop = "add_documents"
\* vectors_to_upsert of the last add_documents call.
LastVectors == VectorsToUpsert(vargs.documents, vargs.nchunks)
Requests(api) == { i \in 1..Len(vcalls) : vcalls[i].api = api }

\* C7: add_documents never raises; it returns False whenever an embedding or an
\* upsert request failed; when it returns True every chunk was embedded, every
\* batch was upserted and every constructed record is in the store.
C7_TrueOnlyIfAllSucceeded ==
    AddDone =>
        /\ vraised = FALSE
        /\ vfail # "none" => vret.value = FALSE
        /\ vret.value = TRUE =>
              /\ vfail = "none"
              /\ Cardinality(Requests("embed_query")) = Len(LastVectors)
              /\ Cardinality(Requests("upsert")) = NumBatches(LastVectors)
              /\ \A i \in 1..Len(LastVectors) : LastVectors[i].id \in DOMAIN store

\* An add_documents call whose chunks were all embedded and whose upsert failed.
C7_Witness ==
    /\ AddDone
    /\ vfail = "upsert"
    /\ Cardinality(Requests("embed_query")) = Len(LastVectors)
    /\ Len(LastVectors) >= 2
    /\ vret.value = FALSE

\* The provider-native identifier of an adapter Document, or None.
ProviderId(doc) ==
    IF HasStr(doc, "pmid") THEN doc.pmid
    ELSE IF HasStr(doc, "nct_id") THEN doc.nct_id ELSE None

\* C8: after a successful add_documents, every chunk i of every Document that
\* carries a provider-native identifier (PMID or NCT id) is in the store under
\* the key "{id}_{i}" with id that identifier, and the records of Documents
\* with different identifiers have different keys.
C8_KeysUseProviderId ==
    (AddDone /\ vret.value = TRUE) =>
        /\ \A d \in 1..Len(vargs.documents) :
              LET doc == vargs.documents[d]
                  n == Len(DocVectors(doc, vargs.nchunks[d]))
              IN  ProviderId(doc) # None =>
                      \A i \in 0..(n - 1) :
                          (ProviderId(doc) \o "_" \o ToStr(i)) \in DOMAIN store
        /\ \A d, e \in 1..Len(vargs.documents) :
              LET dv == DocVectors(vargs.documents[d], vargs.nchunks[d])
                  ev == DocVectors(vargs.documents[e], vargs.nchunks[e])
              IN  (/\ ProviderId(vargs.documents[d]) # None
                   /\ ProviderId(vargs.documents[e]) # None
                   /\ ProviderId(vargs.documents[d]) # ProviderId(vargs.documents[e]))
                  => \A i \in 1..Len(dv), j \in 1..Len(ev) : dv[i].id # ev[j].id

Degraded == init_status \in {"no_key", "connect_failed"}

\* C9: when the store was unavailable at construction, the index stays unset;
\* every later call returns its degraded value (similarity_search the empty
\* list, add_documents False, get_index_stats an error object), raises nothing
\* and issues no embedding or store request.
C9_DegradedForever ==
    Degraded =>
        /\ index = None
        /\ vop \in {"similarity_search", "add_documents", "get_index_stats"} =>
              /\ vraised = FALSE
              /\ vcalls = <<>>
              /\ vop = "similarity_search" => vret.value = <<>>
              /\ vop = "add_documents" => vret.value = FALSE
              /\ vop = "get_index_stats" => DOMAIN vret.value = {"error"}

\* Construction failed to connect; two calls later, a similarity_search has
\* just returned.
C9_Witness ==
    /\ init_status = "connect_failed"
    /\ nops = 2
    /\ vop = "similarity_search"
    /\ vret.value = <<>>

\* The upsert requests of the last call, in order.
UpsertsSent == SelectSeq(vcalls, LAMBDA c : c.api = "upsert")

RECURSIVE Concat(_)
Concat(seqs) == IF seqs = <<>> THEN <<>> ELSE Head(seqs) \o Concat(Tail(seqs))

\* Chunks the splitter cut document d of the last call into, and the records
\* constructed for the documents before d.
ChunkCount(d) ==
    Len(SplitText(ExtractContent(vargs.documents[d]), vargs.nchunks[d]))
RECURSIVE RecordsBefore(_)
RecordsBefore(d) == IF d <= 1 THEN 0 ELSE RecordsBefore(d - 1) + ChunkCount(d - 1)

\* C14: after an add_documents call in which nothing failed, the records sent
\* are, in order, chunk 0, 1, ... of the first document, then of the second, and
\* so on; every upsert request carries between 1 and 100 of them, each but the
\* last exactly 100; there are ceil(n / 100) requests for n records; and the
\* requests' records, concatenated, are the constructed records, none omitted
\* and none repeated.
C14_BatchesOfHundred ==
    (AddDone /\ index # None /\ vfail = "none") =>
        LET n == RecordsBefore(Len(vargs.documents) + 1)
            sent == [ b \in 1..Len(UpsertsSent) |-> UpsertsSent[b].vectors ]
            all == Concat(sent)
        IN  /\ \A b \in 1..Len(sent) : Len(sent[b]) \in 1..100
            /\ \A b \in 1..(Len(sent) - 1) : Len(sent[b]) = 100
            /\ 100 * Len(sent) >= n /\ 100 * (Len(sent) - 1) < n
            /\ Len(all) = n
            /\ \A d \in 1..Len(vargs.documents) :
                  \A i \in 0..(ChunkCount(d) - 1) :
                      LET r == all[RecordsBefore(d) + i + 1]
                      IN  /\ r.id = VectorId(vargs.documents[d], i)
                          /\ r.metadata.chunk_index = i
                          /\ r.metadata.total_chunks = ChunkCount(d)
                          /\ r.metadata.title = Get(vargs.documents[d], "title", "")
                          /\ r.metadata.content.piece = i + 1

\* Two documents, 99 and 2 chunks: the first request carried 100 records, the
\* second the one left over.
C14_Witness ==
    /\ AddDone /\ vfail = "none" /\ vret.value = TRUE
    /\ vargs.nchunks = << batch_size - 1, 2 >>
    /\ Len(UpsertsSent) = 2
    /\ Len(UpsertsSent[1].vectors) = 100
    /\ Len(UpsertsSent[2].vectors) = 1

\* A step in which an add_documents call is made and returns.
AddStep == nops' = nops + 1 /\ vop' = "add_documents"

\* C15: an add_documents call in which a request fails returns False and raises
\* nothing; the upsert requests it sent are the batches up to the failing one,
\* in order, and none after it; every record of the batches before the failing
\* one is in the store afterwards, and everything the store held before the
\* call is still there, unchanged unless one of those records replaced it.
C15_NotAtomic ==
    [][ (AddStep /\ vfail' # "none") =>
          \A vectors \in { VectorsToUpsert(vargs'.documents, vargs'.nchunks) } :
          \A ups \in { SelectSeq(vcalls', LAMBDA c : c.api = "upsert") } :
          \A done \in { IF ups = <<>> THEN 0 ELSE Len(ups) - 1 } :
          \A written \in { SubSeq(vectors, 1, 100 * done) } :
          \A ids \in { { written[p].id : p \in 1..Len(written) } } :
              /\ vret'.value = FALSE /\ vraised' = FALSE
              /\ vfail' = "embed_query" => ups = <<>>
              /\ vfail' = "upsert" => ups # <<>> /\ 100 * done < Len(vectors)
              /\ \A b \in 1..Len(ups) :
                    ups[b].vectors =
                        SubSeq(vectors, 100 * (b - 1) + 1, Min(100 * b, Len(vectors)))
              /\ DOMAIN store' = DOMAIN store \cup ids
              /\ \A k \in DOMAIN store \ ids : store'[k] = store[k]
              /\ \A p \in 1..Len(written) :
                    (\A r \in (p + 1)..Len(written) : written[r].id # written[p].id)
                        => store'[written[p].id] =
                               [values |-> written[p].values,
                                metadata |-> written[p].metadata]
      ]_vars

\* 201 records in three batches; the second upsert request failed: the first
\* hundred records are in the store, the 101st is not, no third request went out.
C15_Witness ==
    /\ AddDone /\ vfail = "upsert" /\ vret.value = FALSE
    /\ vargs.nchunks = << 2 * batch_size + 1 >>
    /\ Len(UpsertsSent) = 2
    /\ "doc-1_0" \in DOMAIN store /\ "doc-1_99" \in DOMAIN store
    /\ "doc-1_100" \notin DOMAIN store

\* C16: in every add_documents call all embedding requests precede all upsert
\* requests, and when an upsert request was sent every chunk of every document
\* had been embedded; a call in which an embedding request fails sends no upsert
\* request, returns False and leaves the store exactly as it was before the call.
C16_EmbedAllBeforeUpsert ==
    [][ AddStep =>
          \A reqs \in { vcalls' } :
          \A n \in { Len(VectorsToUpsert(vargs'.documents, vargs'.nchunks)) } :
              /\ \A i, j \in 1..Len(reqs) :
                    (i < j /\ reqs[i].api = "upsert") => reqs[j].api = "upsert"
              /\ (\E i \in 1..Len(reqs) : reqs[i].api = "upsert") =>
                    Cardinality({ i \in 1..Len(reqs) : reqs[i].api = "embed_query" }) = n
              /\ vfail' = "embed_query" =>
                    /\ \A i \in 1..Len(reqs) : reqs[i].api = "embed_query"
                    /\ Len(reqs) <= n
                    /\ vret'.value = FALSE
                    /\ store' = store
      ]_vars

\* The store holds records of an earlier call; of two documents' chunks the
\* first document's were embedded and an embedding of the second's failed: no
\* upsert request went out.
C16_Witness ==
    /\ AddDone /\ nops = 2 /\ vfail = "embed_query"
    /\ Len(vargs.documents) = 2
    /\ Len(vcalls) > ChunkCount(1) /\ ChunkCount(1) >= 1
    /\ UpsertsSent = <<>>
    /\ store # EmptyDict
    /\ vret.value = FALSE

====
